---------------------------- MODULE Spec2Model ----------------------------
(***************************************************************************)
(* Model of lib/cretonne/src/ir/types.rs: the packed 8-bit value type      *)
(* `Type(u8)`, its lane introspection, its width and lane transformations, *)
(* and its Display / Debug renderings.                                     *)
(*                                                                         *)
(* A Type is modelled by its byte, a number in 0..255.  Option<Type> is a  *)
(* record [some, val]; a rendering is a record [panic, text].              *)
(***************************************************************************)
EXTENDS Integers, Sequences, FiniteSets, TLC

(***************************************************************************)
(* Bounds of the model.                                                    *)
(***************************************************************************)

\* The arguments n tried for by(n) are 0, 65535 and every 2^k - d, 2^k + d
\* with k in 0..15 and d in 0..NSpread that fits in a u16.
NSpread == 1

(***************************************************************************)
(* Machine arithmetic.                                                     *)
(***************************************************************************)

\* Number of bits of the u16 argument of by() and result of lane_count().
U16Bits == 16

\* Number of bits of the u8 wrapped by Type.
U8Bits == 8

U16Mod == 2 ^ U16Bits

U8Mod == 2 ^ U8Bits

RECURSIVE BitAnd(_, _)
\* a & b on naturals.
BitAnd(a, b) ==
    IF a = 0 \/ b = 0
    THEN 0
    ELSE (a % 2) * (b % 2) + 2 * BitAnd(a \div 2, b \div 2)

RECURSIVE BitOr(_, _)
\* a | b on naturals.
BitOr(a, b) ==
    IF a = 0 THEN b
    ELSE IF b = 0 THEN a
    ELSE (IF a % 2 = 1 \/ b % 2 = 1 THEN 1 ELSE 0) + 2 * BitOr(a \div 2, b \div 2)

RECURSIVE count_ones(_)
\* u16::count_ones
count_ones(n) == IF n = 0 THEN 0 ELSE (n % 2) + count_ones(n \div 2)

\* u16::is_power_of_two
is_power_of_two(n) == count_ones(n) = 1

RECURSIVE trailing_zeros(_)
\* u16::trailing_zeros; 16 for n = 0.
trailing_zeros(n) ==
    IF n = 0 THEN U16Bits
    ELSE IF n % 2 = 1 THEN 0
    ELSE 1 + trailing_zeros(n \div 2)

(***************************************************************************)
(* Option<Type>.                                                           *)
(***************************************************************************)

None == [some |-> FALSE, val |-> 0]

Some(t) == [some |-> TRUE, val |-> t]

(***************************************************************************)
(* The constants of the generated catalog (types.rs of OUT_DIR, written by *)
(* lib/cretonne/meta/gen_types.py).  Scalars are numbered from 1 in their  *)
(* order of definition; a vector is its lane's number plus 16 * log2 of    *)
(* its lane count.                                                         *)
(***************************************************************************)

VOID == 0

B1 == 1

B8 == 2

B16 == 3

B32 == 4

B64 == 5

I8 == 6

I16 == 7

I32 == 8

I64 == 9

F32 == 10

F64 == 11

\* The eleven scalar constants.
Scalars == {B1, B8, B16, B32, B64, I8, I16, I32, I64, F32, F64}

\* Size in bytes of a scalar in memory (0 for b1, which has none).
membytes(t) ==
    CASE t \in {B8, I8} -> 1
      [] t \in {B16, I16} -> 2
      [] t \in {B32, I32, F32} -> 4
      [] t \in {B64, I64, F64} -> 8
      [] OTHER -> 0

\* log2 of a power of two in 1..64.
Log2Of(m) == CHOOSE k \in 0..6 : 2 ^ k = m

\* The named vector constants: for the 64, 128, 256 and 512-bit vector sizes,
\* every scalar with a memory size smaller than the vector.
NamedVectors ==
    { t + 16 * Log2Of(size \div membytes(t)) :
        <<t, size>> \in { p \in Scalars \X {8, 16, 32, 64} :
                              membytes(p[1]) /= 0 /\ membytes(p[1]) < p[2] } }

I32X4 == I32 + 16 * 2

B32X4 == B32 + 16 * 2

Catalog == {VOID} \cup Scalars \cup NamedVectors

(***************************************************************************)
(* impl Type                                                               *)
(***************************************************************************)

lane_type(t) == BitAnd(t, 15)

log2_lane_bits(t) ==
    LET l == lane_type(t) IN
    CASE l = B1 -> 0
      [] l \in {B8, I8} -> 3
      [] l \in {B16, I16} -> 4
      [] l \in {B32, I32, F32} -> 5
      [] l \in {B64, I64, F64} -> 6
      [] OTHER -> 0

lane_bits(t) ==
    LET l == lane_type(t) IN
    CASE l = B1 -> 1
      [] l \in {B8, I8} -> 8
      [] l \in {B16, I16} -> 16
      [] l \in {B32, I32, F32} -> 32
      [] l \in {B64, I64, F64} -> 64
      [] OTHER -> 0

as_bool_pedantic(t) ==
    LET l == lane_type(t)
        lane == CASE l \in {B8, I8} -> B8
                  [] l \in {B16, I16} -> B16
                  [] l \in {B32, I32, F32} -> B32
                  [] l \in {B64, I64, F64} -> B64
                  [] OTHER -> B1
    IN  BitOr(lane, BitAnd(t, 240))

is_void(t) == t = VOID

is_bool(t) == t \in {B1, B8, B16, B32, B64}

is_int(t) == t \in {I8, I16, I32, I64}

\* A float test that forgets F64.
is_float_f32_only(t) == t = F32

is_float(t) == t \in {F32, F64}

log2_lane_count(t) == t \div 16

is_scalar(t) == log2_lane_count(t) = 0

\* as_bool without the scalar case.
as_bool_always_pedantic(t) == as_bool_pedantic(t)

as_bool(t) == IF is_scalar(t) THEN B1 ELSE as_bool_pedantic(t)

\* half_width whose I16 arm is missing.
half_width_no_i16(t) ==
    LET l == lane_type(t) IN
    IF l \in {I32, I64, F64, B16, B32, B64}
    THEN Some(BitOr(CASE l = I32 -> I16
                      [] l = I64 -> I32
                      [] l = F64 -> F32
                      [] l = B16 -> B8
                      [] l = B32 -> B16
                      [] l = B64 -> B32,
                    BitAnd(t, 240)))
    ELSE None

half_width(t) ==
    LET l == lane_type(t) IN
    IF l \in {I16, I32, I64, F64, B16, B32, B64}
    THEN Some(BitOr(CASE l = I16 -> I8
                      [] l = I32 -> I16
                      [] l = I64 -> I32
                      [] l = F64 -> F32
                      [] l = B16 -> B8
                      [] l = B32 -> B16
                      [] l = B64 -> B32,
                    BitAnd(t, 240)))
    ELSE None

\* double_width that takes I8 to I32.
double_width_i8_to_i32(t) ==
    LET l == lane_type(t) IN
    IF l \in {I8, I16, I32, F32, B8, B16, B32}
    THEN Some(BitOr(CASE l = I8 -> I32
                      [] l = I16 -> I32
                      [] l = I32 -> I64
                      [] l = F32 -> F64
                      [] l = B8 -> B16
                      [] l = B16 -> B32
                      [] l = B32 -> B64,
                    BitAnd(t, 240)))
    ELSE None

double_width(t) ==
    LET l == lane_type(t) IN
    IF l \in {I8, I16, I32, F32, B8, B16, B32}
    THEN Some(BitOr(CASE l = I8 -> I16
                      [] l = I16 -> I32
                      [] l = I32 -> I64
                      [] l = F32 -> F64
                      [] l = B8 -> B16
                      [] l = B16 -> B32
                      [] l = B32 -> B64,
                    BitAnd(t, 240)))
    ELSE None

\* 1 << log2_lane_count() in a u16 (the shift is at most 15).
lane_count(t) == (2 ^ log2_lane_count(t)) % U16Mod

\* bits computed in a u8.
bits_u8(t) == (lane_bits(t) * lane_count(t)) % U8Mod

\* lane_bits() as u16 * lane_count(), wrapped to a u16.
bits(t) == (lane_bits(t) * lane_count(t)) % U16Mod

\* The u16 multiplication of bits() overflows (a panic in a checked build).
bits_overflows(t) == lane_bits(t) * lane_count(t) >= U16Mod

\* by without the test of the new lane count.
by_no_cap(t, n) ==
    IF lane_bits(t) = 0 \/ ~is_power_of_two(n)
    THEN None
    ELSE Some((t + trailing_zeros(n) * 16) % U8Mod)

\* by without the power-of-two test.
by_any_n(t, n) ==
    IF lane_bits(t) = 0
    THEN None
    ELSE LET new_type == t + trailing_zeros(n) * 16
         IN  IF new_type < 144 THEN Some(new_type % U8Mod) ELSE None

by(t, n) ==
    IF lane_bits(t) = 0 \/ ~is_power_of_two(n)
    THEN None
    ELSE LET log2_lanes == trailing_zeros(n)
             new_type == t + log2_lanes * 16
         IN  IF new_type < 144 THEN Some(new_type % U8Mod) ELSE None

\* half_vector that tests for void instead of scalar.
half_vector_void_test(t) ==
    IF is_void(t) THEN None ELSE Some((t - 16) % U8Mod)

\* half_vector that drops all the lanes.
half_vector_to_lane(t) ==
    IF is_scalar(t) THEN None ELSE Some(lane_type(t))

half_vector(t) ==
    IF is_scalar(t) THEN None ELSE Some(t - 16)


(***************************************************************************)
(* Formatting of integers by write!: "{}" and "{:x}".                      *)
(***************************************************************************)

DecDigits == <<"0", "1", "2", "3", "4", "5", "6", "7", "8", "9">>

HexDigits == <<"0", "1", "2", "3", "4", "5", "6", "7", "8", "9",
               "a", "b", "c", "d", "e", "f">>

RECURSIVE FmtDec(_)
\* "{}" of an unsigned integer.
FmtDec(n) ==
    IF n < 10
    THEN DecDigits[n + 1]
    ELSE FmtDec(n \div 10) \o DecDigits[(n % 10) + 1]

RECURSIVE FmtHex(_)
\* "{:x}" of an unsigned integer.
FmtHex(n) ==
    IF n < 16
    THEN HexDigits[n + 1]
    ELSE FmtHex(n \div 16) \o HexDigits[(n % 16) + 1]

\* A rendering that wrote text, and one that panicked.
Wrote(s) == [panic |-> FALSE, text |-> s]

Panicked == [panic |-> TRUE, text |-> ""]

(***************************************************************************)
(* impl Display for Type, impl Debug for Type                              *)
(***************************************************************************)

RECURSIVE DisplayFmt(_)
\* <Type as Display>::fmt
DisplayFmt(t) ==
    IF is_void(t) THEN Wrote("void")
    ELSE IF is_bool(t) THEN Wrote("b" \o FmtDec(lane_bits(t)))
    ELSE IF is_int(t) THEN Wrote("i" \o FmtDec(lane_bits(t)))
    ELSE IF is_float(t) THEN Wrote("f" \o FmtDec(lane_bits(t)))
    ELSE IF ~is_scalar(t)
    THEN LET lane == DisplayFmt(lane_type(t))
         IN  IF lane.panic
             THEN Panicked
             ELSE Wrote(lane.text \o "x" \o FmtDec(lane_count(t)))
    ELSE Panicked

RECURSIVE DebugFmtPanics(_)
\* Debug whose last branch panics like Display's.
DebugFmtPanics(t) ==
    IF is_void(t) THEN Wrote("types::VOID")
    ELSE IF is_bool(t) THEN Wrote("types::B" \o FmtDec(lane_bits(t)))
    ELSE IF is_int(t) THEN Wrote("types::I" \o FmtDec(lane_bits(t)))
    ELSE IF is_float(t) THEN Wrote("types::F" \o FmtDec(lane_bits(t)))
    ELSE IF ~is_scalar(t)
    THEN LET lane == DebugFmtPanics(lane_type(t))
         IN  IF lane.panic
             THEN Panicked
             ELSE Wrote(lane.text \o "X" \o FmtDec(lane_count(t)))
    ELSE Panicked

RECURSIVE DebugFmt(_)
\* <Type as Debug>::fmt
DebugFmt(t) ==
    IF is_void(t) THEN Wrote("types::VOID")
    ELSE IF is_bool(t) THEN Wrote("types::B" \o FmtDec(lane_bits(t)))
    ELSE IF is_int(t) THEN Wrote("types::I" \o FmtDec(lane_bits(t)))
    ELSE IF is_float(t) THEN Wrote("types::F" \o FmtDec(lane_bits(t)))
    ELSE IF ~is_scalar(t)
    THEN LET lane == DebugFmt(lane_type(t))
         IN  IF lane.panic
             THEN Panicked
             ELSE Wrote(lane.text \o "X" \o FmtDec(lane_count(t)))
    ELSE Wrote("Type(0x" \o FmtHex(t) \o ")")

(***************************************************************************)
(* The state: the Type value a caller holds, and the last call made on it  *)
(* with what it returned.                                                  *)
(***************************************************************************)

VARIABLES
    ty,     \* the Type the caller holds (its byte)
    last    \* the last call: [op, arg, n, res, out, count, nbits]

vars == <<ty, last>>

\* The record of a call.  op: the method; arg: the receiver; n: the argument
\* of by (0 otherwise); res: the Option<Type> returned (a returned Type is
\* Some); out: the rendering; count, nbits: lane_count() and bits().
Call(op, arg, n, res, out, count, nbits) ==
    [op |-> op, arg |-> arg, n |-> n, res |-> res, out |-> out,
     count |-> count, nbits |-> nbits]

NoOut == Wrote("")

\* The arguments tried for by(n).
NInputs ==
    {0, U16Mod - 1} \cup
    { m \in UNION { {2 ^ k - d, 2 ^ k + d} : <<k, d>> \in (0..(U16Bits - 1)) \X (0..NSpread) } :
        m >= 0 /\ m < U16Mod }

\* The caller goes on with the result when there is one.
Continue(res) == ty' = IF res.some THEN res.val ELSE ty

\* A caller starts with a constant of the catalog.
Init ==
    /\ ty \in Catalog
    /\ last = Call("const", ty, 0, None, NoOut, 0, 0)

LaneType ==
    LET r == Some(lane_type(ty)) IN
    /\ last' = Call("lane_type", ty, 0, r, NoOut, 0, 0)
    /\ Continue(r)

AsBool ==
    LET r == Some(as_bool(ty)) IN
    /\ last' = Call("as_bool", ty, 0, r, NoOut, 0, 0)
    /\ Continue(r)

AsBoolPedantic ==
    LET r == Some(as_bool_pedantic(ty)) IN
    /\ last' = Call("as_bool_pedantic", ty, 0, r, NoOut, 0, 0)
    /\ Continue(r)

HalfWidth ==
    LET r == half_width(ty) IN
    /\ last' = Call("half_width", ty, 0, r, NoOut, 0, 0)
    /\ Continue(r)

DoubleWidth ==
    LET r == double_width(ty) IN
    /\ last' = Call("double_width", ty, 0, r, NoOut, 0, 0)
    /\ Continue(r)

By ==
    \E n \in NInputs :
        LET r == by(ty, n) IN
        /\ last' = Call("by", ty, n, r, NoOut, 0, 0)
        /\ Continue(r)

HalfVector ==
    LET r == half_vector(ty) IN
    /\ last' = Call("half_vector", ty, 0, r, NoOut, 0, 0)
    /\ Continue(r)

\* lane_count() and bits() of the value held.  Where the u16 multiplication
\* overflows, a build with overflow checks panics and one without wraps.
Bits ==
    \E checked \in BOOLEAN :
        LET overflow == bits_overflows(ty) /\ checked IN
        /\ last' = Call("bits", ty, 0, None,
                        IF overflow THEN Panicked ELSE NoOut,
                        lane_count(ty),
                        IF overflow THEN 0 ELSE bits(ty))
        /\ UNCHANGED ty

\* to_string(), format!("{}", ty)
Fmt ==
    /\ last' = Call("fmt", ty, 0, None, DisplayFmt(ty), 0, 0)
    /\ UNCHANGED ty

\* format!("{:?}", ty)
FmtDebug ==
    /\ last' = Call("fmt_debug", ty, 0, None, DebugFmt(ty), 0, 0)
    /\ UNCHANGED ty

Next ==
    \/ LaneType
    \/ AsBool
    \/ AsBoolPedantic
    \/ HalfWidth
    \/ DoubleWidth
    \/ By
    \/ HalfVector
    \/ Bits
    \/ Fmt
    \/ FmtDebug

Spec == Init /\ [][Next]_vars

(***************************************************************************)
(* The renderings as functions of any byte: Type is a u8 and fmt takes any *)
(* value of it.                                                            *)
(***************************************************************************)

InitAnyByte ==
    /\ ty \in 0..(U8Mod - 1)
    /\ last = Call("const", ty, 0, None, NoOut, 0, 0)

NextRender ==
    \/ Fmt
    \/ FmtDebug
    \/ Bits

SpecRender == InitAnyByte /\ [][NextRender]_vars


(***************************************************************************)
(* Vocabulary of the properties.                                           *)
(***************************************************************************)

\* The high nibble and the low nibble of a code.
HighNibble(t) == t \div 16

LowNibble(t) == t % 16

\* A well-formed code: at most 256 lanes of void or of one of the eleven
\* scalars, and void only with one lane.
WellFormed(t) ==
    /\ HighNibble(t) \in 0..8
    /\ LowNibble(t) \in {VOID} \cup Scalars
    /\ LowNibble(t) = VOID => HighNibble(t) = 0

\* A scalar code that is neither void nor one of the eleven scalars.
MalformedScalar(t) ==
    /\ HighNibble(t) = 0
    /\ LowNibble(t) \notin {VOID} \cup Scalars

\* n is a power of two that fits in 16 bits.
IsPow2(n) == \E k \in 0..15 : n = 2 ^ k

\* The text of void and of the scalars.
ScalarText(l) ==
    CASE l = VOID -> "void"
      [] l = B1 -> "b1"
      [] l = B8 -> "b8"
      [] l = B16 -> "b16"
      [] l = B32 -> "b32"
      [] l = B64 -> "b64"
      [] l = I8 -> "i8"
      [] l = I16 -> "i16"
      [] l = I32 -> "i32"
      [] l = I64 -> "i64"
      [] l = F32 -> "f32"
      [] l = F64 -> "f64"
      [] OTHER -> "?"

\* The decimal text of the lane counts 1, 2, 4, ..., 256, by their log2.
CountText == <<"1", "2", "4", "8", "16", "32", "64", "128", "256">>

\* The text a well-formed code is to render as.
ExpectedText(t) ==
    IF HighNibble(t) = 0
    THEN ScalarText(t)
    ELSE ScalarText(LowNibble(t)) \o "x" \o CountText[HighNibble(t) + 1]

\* The boolean scalar with the lane width of a scalar.
BoolOfWidth(l) ==
    CASE l \in {B1} -> B1
      [] l \in {B8, I8} -> B8
      [] l \in {B16, I16} -> B16
      [] l \in {B32, I32, F32} -> B32
      [] l \in {B64, I64, F64} -> B64

(***************************************************************************)
(* Properties.                                                             *)
(***************************************************************************)

\* C1: every value reached from the catalog by lane_type, as_bool,
\* as_bool_pedantic, half_width, double_width, by(n) and half_vector is
\* well-formed: high nibble in 0..8, low nibble void or one of the eleven
\* scalars, and void only with high nibble 0.
C1_ReachableWellFormed ==
    /\ WellFormed(ty)
    /\ WellFormed(last.arg)
    /\ last.res.some => WellFormed(last.res.val)

\* C1 witness: by has produced a vector with 256 lanes from a vector.
C1_Witness ==
    /\ last.op = "by"
    /\ HighNibble(last.arg) > 0
    /\ last.res.some
    /\ HighNibble(ty) = 8

\* C2: t.by(n) returns a result exactly when t's lane type is not void (its
\* lane width is not zero), n is a power of two and t.lane_count() * n <= 256;
\* the result has t's lane type and t.lane_count() * n lanes.
C2_ByDefinedExactly ==
    last.op = "by" =>
        /\ last.res.some <=>
              /\ LowNibble(last.arg) /= VOID
              /\ lane_bits(last.arg) /= 0
              /\ IsPow2(last.n)
              /\ lane_count(last.arg) * last.n <= 256
        /\ last.res.some =>
              /\ lane_type(last.res.val) = lane_type(last.arg)
              /\ lane_count(last.res.val) = lane_count(last.arg) * last.n

\* C2 witness: a 2-lane vector by 128 reaches exactly 256 lanes.
C2_Witness ==
    /\ last.op = "by"
    /\ last.arg = I8 + 16
    /\ last.n = 128
    /\ last.res = Some(I8 + 16 * 8)

\* C3: as_bool of a scalar (void included) is B1; as_bool of a vector is its
\* as_bool_pedantic, with the same lane count and the boolean lane type of the
\* same lane width (a boolean lane type maps to itself).
C3_AsBool ==
    last.op = "as_bool" =>
        IF lane_count(last.arg) = 1
        THEN last.res = Some(B1)
        ELSE /\ last.res = Some(as_bool_pedantic(last.arg))
             /\ lane_count(last.res.val) = lane_count(last.arg)
             /\ LowNibble(last.res.val) = BoolOfWidth(LowNibble(last.arg))
             /\ lane_bits(last.res.val) = lane_bits(last.arg)
             /\ is_bool(lane_type(last.arg)) => last.res.val = last.arg

\* C3 witness: as_bool of the 4-lane 32-bit integer vector is b32x4.
C3_Witness ==
    /\ last.op = "as_bool"
    /\ last.arg = I32X4
    /\ last.res = Some(B32X4)

\* C4: half_width and double_width are inverse partial functions and keep the
\* lane count: if t.half_width() is u then u.double_width() is t, and if
\* t.double_width() is v then v.half_width() is t.
C4_WidthInverse ==
    /\ (last.op = "half_width" /\ last.res.some) =>
          /\ double_width(last.res.val) = Some(last.arg)
          /\ lane_count(last.res.val) = lane_count(last.arg)
    /\ (last.op = "double_width" /\ last.res.some) =>
          /\ half_width(last.res.val) = Some(last.arg)
          /\ lane_count(last.res.val) = lane_count(last.arg)

\* C4 witness: half_width of a 16-bit integer vector returned the 8-bit one.
C4_Witness ==
    /\ last.op = "half_width"
    /\ LowNibble(last.arg) = I16
    /\ HighNibble(last.arg) > 0
    /\ last.res.some
    /\ LowNibble(last.res.val) = I8

\* C5 as stated: for every scalar other than void, B1, I8 and F32,
\* half_width returns a result whose double_width is the scalar.
C5_Original ==
    (/\ last.op = "half_width"
     /\ is_scalar(last.arg)
     /\ last.arg \notin {VOID, B1, I8, F32}) =>
        /\ last.res.some
        /\ double_width(last.res.val) = Some(last.arg)

\* C5 as amended: for every scalar other than void, B1, B8, I8 and F32,
\* half_width returns a result whose double_width is the scalar; half_width
\* of B8 returns no result.
C5_HalfThenDouble ==
    /\ (/\ last.op = "half_width"
        /\ is_scalar(last.arg)
        /\ last.arg \notin {VOID, B1, B8, I8, F32}) =>
           /\ last.res.some
           /\ double_width(last.res.val) = Some(last.arg)
    /\ (last.op = "half_width" /\ last.arg = B8) => ~last.res.some

\* C5 witness: half_width of the scalar I16 returned I8.
C5_Witness ==
    /\ last.op = "half_width"
    /\ last.arg = I16
    /\ last.res = Some(I8)

\* C6: Display of a value reached from the catalog never panics and writes
\* "void", or the family letter and the lane width of a scalar, or for a
\* vector the text of its lane type, "x" and the lane count.
C6_DisplayText ==
    last.op = "fmt" =>
        /\ ~last.out.panic
        /\ last.out.text = ExpectedText(last.arg)

\* C6 witness: the 256-lane 64-bit float vector rendered as "f64x256".
C6_Witness ==
    /\ last.op = "fmt"
    /\ last.arg = F64 + 16 * 8
    /\ last.out = Wrote("f64x256")

C8_Original ==
    /\ (last.op = "half_vector" /\ lane_count(last.arg) = 1) => ~last.res.some
    /\ (last.op = "half_vector" /\ Some(last.arg) = by(B1, 8)) =>
          /\ last.res = Some(B1)
          /\ DisplayFmt(last.res.val) = Wrote("b1")

\* C8 as amended: half_vector of a scalar (void included) returns nothing;
\* half_vector of B1.by(2) is the scalar B1, rendered "b1"; half_vector of
\* B1.by(8) is B1.by(4), rendered "b1x4".
C8_HalfVector ==
    /\ (last.op = "half_vector" /\ lane_count(last.arg) = 1) => ~last.res.some
    /\ (last.op = "half_vector" /\ Some(last.arg) = by(B1, 2)) =>
          /\ last.res = Some(B1)
          /\ DisplayFmt(last.res.val) = Wrote("b1")
    /\ (last.op = "half_vector" /\ Some(last.arg) = by(B1, 8)) =>
          /\ last.res = by(B1, 4)
          /\ DisplayFmt(last.res.val) = Wrote("b1x4")

\* C8 witness: half_vector of the 2-lane b1 vector returned B1.
C8_Witness ==
    /\ last.op = "half_vector"
    /\ last.arg = B1 + 16
    /\ last.res = Some(B1)

\* C9: for t with a non-void lane type and a power of two n >= 2 with
\* t.lane_count() * n <= 256, t.by(n).half_vector() is t.by(n / 2): it has
\* t's lane type and half the lanes of t.by(n).
C9_HalfVectorUndoesBy ==
    (/\ last.op = "by"
     /\ LowNibble(last.arg) /= VOID
     /\ IsPow2(last.n)
     /\ last.n >= 2
     /\ lane_count(last.arg) * last.n <= 256) =>
        /\ last.res.some
        /\ half_vector(last.res.val).some
        /\ half_vector(last.res.val) = by(last.arg, last.n \div 2)
        /\ lane_type(half_vector(last.res.val).val) = lane_type(last.arg)
        /\ 2 * lane_count(half_vector(last.res.val).val) = lane_count(last.res.val)

\* C9 witness: I32.by(4) was made, and its half_vector is I32.by(2).
C9_Witness ==
    /\ last.op = "by"
    /\ last.arg = I32
    /\ last.n = 4
    /\ last.res = Some(I32X4)
    /\ half_vector(I32X4) = Some(I32 + 16)

\* C10: bits() in 16-bit arithmetic is the exact product of lane_bits() and
\* lane_count(), without overflow: 0 for void, at most 16384, and
\* lane_count() is 2^log2_lane_count(), between 1 and 256.
C10_BitsExact ==
    last.op = "bits" =>
        /\ ~last.out.panic
        /\ last.count = 2 ^ HighNibble(last.arg)
        /\ last.count \in 1..256
        /\ last.nbits = lane_bits(last.arg) * last.count
        /\ last.nbits <= 16384
        /\ last.arg = VOID => last.nbits = 0

\* C10 witness: bits() of the 256-lane 64-bit float vector returned 16384.
C10_Witness ==
    /\ last.op = "bits"
    /\ last.arg = F64 + 16 * 8
    /\ last.count = 256
    /\ last.nbits = 16384

=============================================================================
